---------------------------- MODULE Spec2Model ----------------------------
(***************************************************************************)
(* A model of go-shedule-tasks (src/main.go, lines 1-273): a scheduler     *)
(* that runs each user task on its own ticker, one goroutine per tick,     *)
(* with one mutex per task.                                                *)
(*                                                                         *)
(* Strings are sequences of one-character strings, so that the string      *)
(* functions the program uses (HasSuffix, Trim, Split, ParseDuration,      *)
(* Sprintf) are computed and not assumed.  Durations and the clock are     *)
(* counted in milliseconds.                                                *)
(***************************************************************************)
EXTENDS Integers, Sequences, FiniteSets, TLC

(***************************************************************************)
(* Bounds of the model.                                                    *)
(***************************************************************************)
\* The clock advances MaxSteps times, ClockStep milliseconds each time.
MaxSteps == 3

(***************************************************************************)
(* String literals of the program and of its inputs.                       *)
(***************************************************************************)
Quote == "\""
Space == " "
\* the character U+0060, which a TLA+ string cannot hold, by its name
Backtick == "backtick"
ShSuffix == <<".", "s", "h">>
Bash == <<"/", "u", "s", "r", "/", "b", "i", "n", "/", "b", "a", "s", "h">>
DefaultLog == <<".", "/", "t", "a", "s", "k", "-", "s", "c", "h", "e", "d", "u", "l", "e", "r", ".", "l", "o", "g">>
CustomLog == <<"m", "y", ".", "l", "o", "g">>
ErrorPrefix == <<"E", "R", "R", "O", "R", "!", ":", " ", " ">>
Dash == <<" ", "-", " ">>
\* (*exec.ExitError).Error() of a process that exits with status 1
ExitStatus1 == <<"e", "x", "i", "t", " ", "s", "t", "a", "t", "u", "s", " ", "1">>
\* (*exec.ExitError).Error() of a process killed by a signal
SignalKilled == <<"s", "i", "g", "n", "a", "l", ":", " ", "k", "i", "l", "l", "e", "d">>
\* (*exec.Error).Error() is  exec: "<name>": executable file not found in $PATH
ExecColon == <<"e", "x", "e", "c", ":", " ", "\"">>
NotFound == <<"\"", ":", " ", "e", "x", "e", "c", "u", "t", "a", "b", "l", "e", " ", "f", "i", "l", "e", " ", "n", "o", "t", " ", "f", "o", "u", "n", "d", " ", "i", "n", " ", "$", "P", "A", "T", "H">>

\* Task texts a user supplies.
EchoHello == <<"e", "c", "h", "o", " ", "h", "e", "l", "l", "o">>
Date == <<"d", "a", "t", "e">>
JobSh == <<"j", "o", "b", ".", "s", "h">>
\* a script path that reaches the program wrapped in double quotes
QuotedJobSh == <<"\"", "j", "o", "b", ".", "s", "h", "\"">>
Echo == <<"e", "c", "h", "o">>
Hello == <<"h", "e", "l", "l", "o">>
\* what date prints (any fixed text without the letters of a task name)
DateOut == <<"1", "2", ":", "0", "0">>
\* what the script prints
JobOut == <<"o", "k">>

\* Duration texts a user supplies.
D100ms == <<"1", "0", "0", "m", "s">>
D200ms == <<"2", "0", "0", "m", "s">>
D0s == <<"0", "s">>
DNeg100ms == <<"-", "1", "0", "0", "m", "s">>
D1min == <<"1", "m", "i", "n">>

(***************************************************************************)
(* Library functions of package strings.                                   *)
(***************************************************************************)
\* strings.HasSuffix(s, suffix)
HasSuffix(s, suffix) ==
    /\ Len(s) >= Len(suffix)
    /\ SubSeq(s, Len(s) - Len(suffix) + 1, Len(s)) = suffix

\* strings.HasPrefix(s, prefix)
HasPrefix(s, prefix) ==
    /\ Len(s) >= Len(prefix)
    /\ SubSeq(s, 1, Len(prefix)) = prefix

RECURSIVE TrimLeft(_, _)
TrimLeft(s, c) ==
    IF s # <<>> /\ Head(s) = c THEN TrimLeft(Tail(s), c) ELSE s

RECURSIVE TrimRight(_, _)
TrimRight(s, c) ==
    IF s # <<>> /\ s[Len(s)] = c THEN TrimRight(SubSeq(s, 1, Len(s) - 1), c) ELSE s

\* strings.Trim(s, cutset) for a cutset of one character
Trim(s, c) == TrimRight(TrimLeft(s, c), c)

\* strings.Split(s, sep) for a separator of one character: n separators give
\* n + 1 fields, empty fields included.
RECURSIVE Split(_, _)
Split(s, sep) ==
    IF \A i \in 1..Len(s) : s[i] # sep
    THEN <<s>>
    ELSE LET k == CHOOSE i \in 1..Len(s) :
                      s[i] = sep /\ \A j \in 1..(i - 1) : s[j] # sep
         IN  <<SubSeq(s, 1, k - 1)>> \o Split(SubSeq(s, k + 1, Len(s)), sep)

\* strings.Contains(s, sub)
Contains(s, sub) ==
    \E i \in 0..(Len(s) - Len(sub)) : SubSeq(s, i + 1, i + Len(sub)) = sub

(***************************************************************************)
(* time.ParseDuration, for whole numbers and the units the program names   *)
(* in its error message (h, m, s, ms).  A Duration is a number of          *)
(* milliseconds.                                                           *)
(***************************************************************************)
Millisecond == 1
Second == 1000 * Millisecond
Minute == 60 * Second
Hour == 60 * Minute

Digits == {"0", "1", "2", "3", "4", "5", "6", "7", "8", "9"}

DigitVal(c) ==
    CASE c = "0" -> 0 [] c = "1" -> 1 [] c = "2" -> 2 [] c = "3" -> 3
      [] c = "4" -> 4 [] c = "5" -> 5 [] c = "6" -> 6 [] c = "7" -> 7
      [] c = "8" -> 8 [] c = "9" -> 9

\* the length of the longest prefix of s made of characters for which digit
\* is wanted (TRUE: digits, FALSE: not digits)
RECURSIVE PrefixLen(_, _)
PrefixLen(s, digit) ==
    IF s # <<>> /\ ((Head(s) \in Digits) = digit)
    THEN 1 + PrefixLen(Tail(s), digit)
    ELSE 0

RECURSIVE NumVal(_)
NumVal(s) ==
    IF s = <<>> THEN 0 ELSE 10 * NumVal(SubSeq(s, 1, Len(s) - 1)) + DigitVal(s[Len(s)])

UnitNames == {<<"m", "s">>, <<"s">>, <<"m">>, <<"h">>}

UnitVal(u) ==
    CASE u = <<"m", "s">> -> Millisecond
      [] u = <<"s">> -> Second
      [] u = <<"m">> -> Minute
      [] u = <<"h">> -> Hour

ParseError == [ok |-> FALSE, d |-> 0]

\* the loop of ParseDuration, ([0-9]+[a-z]+)+, one segment at a time: the
\* digits, the unit, the rest
RECURSIVE ParseSegments(_)

AddSegment(d, more) ==
    IF more.ok THEN [ok |-> TRUE, d |-> d + more.d] ELSE ParseError

ParseSegment(num, unit, rest) ==
    IF num = <<>> \/ unit = <<>> \/ unit \notin UnitNames
    THEN ParseError
    ELSE AddSegment(NumVal(num) * UnitVal(unit), ParseSegments(rest))

ParseUnit(num, rest, nu) ==
    ParseSegment(num, SubSeq(rest, 1, nu), SubSeq(rest, nu + 1, Len(rest)))

ParseNumber(s, nd) ==
    ParseUnit(SubSeq(s, 1, nd), SubSeq(s, nd + 1, Len(s)),
              PrefixLen(SubSeq(s, nd + 1, Len(s)), FALSE))

ParseSegments(s) ==
    IF s = <<>> THEN [ok |-> TRUE, d |-> 0] ELSE ParseNumber(s, PrefixLen(s, TRUE))

Negate(r) == IF r.ok THEN [ok |-> TRUE, d |-> 0 - r.d] ELSE r

ParseUnsigned(s) ==
    IF s = <<"0">> THEN [ok |-> TRUE, d |-> 0]
    ELSE IF s = <<>> THEN ParseError
    ELSE ParseSegments(s)

ParseDuration(text) ==
    IF text # <<>> /\ Head(text) = "-" THEN Negate(ParseUnsigned(Tail(text)))
    ELSE IF text # <<>> /\ Head(text) = "+" THEN ParseUnsigned(Tail(text))
    ELSE ParseUnsigned(text)

\* parseDurationStr after time.ParseDuration has returned r: its error, or
\* an error for a negative duration; a duration of zero is returned
BlockNegative(r) ==
    IF ~r.ok THEN ParseError
    ELSE IF r.d < 0 THEN ParseError
    ELSE r

parseDurationStr(durationText) == BlockNegative(ParseDuration(durationText))

(***************************************************************************)
(* The environment: what the user passes and what the machine holds.       *)
(***************************************************************************)
\* rows of a task file
RowJob == JobSh \o <<Space>> \o D100ms
RowNegative == Date \o <<Space>> \o DNeg100ms
RowBadUnit == Date \o <<Space>> \o D1min
RowThreeFields == EchoHello \o <<Space>> \o D100ms
RowOneField == Date
\* a command with spaces wrapped in backticks, as in README's task file
RowBacktick == <<Backtick>> \o EchoHello \o <<Backtick>> \o <<Space>> \o D100ms

NoFile == [given |-> FALSE, opens |-> FALSE, rows |-> <<>>]
MissingFile == [given |-> TRUE, opens |-> FALSE, rows |-> <<>>]
FileOf(rows) == [given |-> TRUE, opens |-> TRUE, rows |-> rows]

\* the programs found on the machine (in $PATH, or by their path)
Installed == {Echo, Date, Bash}

\* what a program that runs to exit status 0 has written to its stdout
Stdout(argv) ==
    IF argv[1] = Echo THEN (IF Len(argv) > 1 THEN argv[2] ELSE <<>>)
    ELSE IF argv[1] = Date THEN DateOut
    ELSE JobOut

TaskTexts == {Date, EchoHello, JobSh, QuotedJobSh}
DurationTexts == {D100ms, D200ms, D0s, DNeg100ms, D1min}
FileRows == {RowJob, RowNegative, RowBadUnit, RowThreeFields, RowOneField, RowBacktick}

(***************************************************************************)
(* The command lines and files the model is run on.                        *)
(***************************************************************************)
CommandLine(ts, ds, f, lp, op) ==
    [tasks |-> ts, durs |-> ds, file |-> f, logPath |-> lp, openable |-> op]

\* at most one --task and at most one --duration, every combination
OneFlagInputs ==
    {CommandLine(ts, ds, NoFile, DefaultLog, {DefaultLog}) :
        ts \in {<<>>} \cup {<<t>> : t \in TaskTexts},
        ds \in {<<>>} \cup {<<d>> : d \in DurationTexts}}

\* two --task and two --duration
TwoFlagInputs ==
    {CommandLine(p[1], p[2], NoFile, DefaultLog, {DefaultLog}) :
        p \in {<<<<Date, JobSh>>, <<D100ms, D200ms>>>>,
               <<<<EchoHello, Date>>, <<D200ms, D100ms>>>>,
               <<<<JobSh, EchoHello>>, <<D100ms, D100ms>>>>,
               <<<<Date, JobSh>>, <<D100ms, D0s>>>>,
               <<<<JobSh, Date>>, <<D0s, D100ms>>>>,
               <<<<Date, Date>>, <<D200ms, DNeg100ms>>>>,
               <<<<Date, Date>>, <<D200ms, D200ms>>>>,
               <<<<Date, JobSh>>, <<D100ms>>>>,
               <<<<Date, JobSh>>, <<D1min>>>>,
               <<<<Date>>, <<D200ms, D100ms>>>>}}

\* a task file of at most two rows, with no flag or with one --duration
Files ==
    {MissingFile, FileOf(<<>>)}
        \cup {FileOf(<<r>>) : r \in FileRows}
        \cup {FileOf(<<r1, r2>>) : r1 \in FileRows, r2 \in FileRows}

FileInputs ==
    {CommandLine(<<>>, ds, f, DefaultLog, {DefaultLog}) :
        ds \in {<<>>, <<D200ms>>}, f \in Files}
        \cup {CommandLine(<<Date>>, <<D100ms>>, MissingFile, DefaultLog, {DefaultLog})}

\* the log file: the default path or --logs, files that open or do not
LogInputs ==
    {CommandLine(<<Date>>, <<D100ms>>, NoFile, lp, op) :
        lp \in {DefaultLog, CustomLog},
        op \in {{}, {DefaultLog}, {DefaultLog, CustomLog}}}

Inputs == OneFlagInputs \cup TwoFlagInputs \cup FileInputs \cup LogInputs

(***************************************************************************)
(* init(): flags, task file, task construction, log file.                  *)
(***************************************************************************)
\* durationMultiFlag.Set over the -d/--duration values in order: a value that
\* parseDurationStr rejects ends the process (os.Exit(1)).
RECURSIVE durationMultiFlagSet(_)

AppendDuration(r, more) ==
    IF ~r.ok \/ more.exit THEN [exit |-> TRUE, list |-> <<>>]
    ELSE [exit |-> FALSE, list |-> <<r.d>> \o more.list]

durationMultiFlagSet(durs) ==
    IF durs = <<>> THEN [exit |-> FALSE, list |-> <<>>]
    ELSE AppendDuration(parseDurationStr(Head(durs)), durationMultiFlagSet(Tail(durs)))

\* parseTaskFileRow: err is "nil", "error" (the row is refused) or "panic"
\* (splitTask[1] read from a slice of length 1).
RowResult(task, r) ==
    IF r.ok THEN [task |-> task, duration |-> r.d, err |-> "nil"]
    ELSE [task |-> <<>>, duration |-> 0, err |-> "error"]

RowOf(splitTask) ==
    IF Len(splitTask) > 2 THEN [task |-> <<>>, duration |-> 0, err |-> "error"]
    ELSE IF Len(splitTask) < 2 THEN [task |-> <<>>, duration |-> 0, err |-> "panic"]
    ELSE RowResult(splitTask[1], parseDurationStr(splitTask[2]))

parseTaskFileRow(fileRow) == RowOf(Split(fileRow, Space))

NoRows == [panic |-> FALSE, tasks |-> <<>>, durations |-> <<>>]

\* the scanner loop of parseTasksFile: a row is added when its err is nil
RECURSIVE ScanRows(_)

\* a scanner loop that appends the task of a row before it looks at the
\* row's error, and the duration after
AppendRow_TaskFirst(r, more) ==
    IF r.err = "panic" THEN [panic |-> TRUE, tasks |-> <<>>, durations |-> <<>>]
    ELSE IF r.err = "nil"
    THEN [panic |-> more.panic, tasks |-> <<r.task>> \o more.tasks,
          durations |-> <<r.duration>> \o more.durations]
    ELSE [panic |-> more.panic, tasks |-> <<r.task>> \o more.tasks,
          durations |-> more.durations]

AppendRow(r, more) ==
    IF r.err = "panic" THEN [panic |-> TRUE, tasks |-> <<>>, durations |-> <<>>]
    ELSE IF r.err = "nil"
    THEN [panic |-> more.panic, tasks |-> <<r.task>> \o more.tasks,
          durations |-> <<r.duration>> \o more.durations]
    ELSE more

ScanRows(rows) ==
    IF rows = <<>> THEN NoRows
    ELSE AppendRow(parseTaskFileRow(Head(rows)), ScanRows(Tail(rows)))

\* a parseTasksFile that does not come back when os.Open fails
parseTasksFile_FatalOnOpen(file) ==
    IF ~file.opens THEN [panic |-> TRUE, tasks |-> <<>>, durations |-> <<>>]
    ELSE ScanRows(file.rows)

parseTasksFile(file) ==
    IF ~file.opens THEN NoRows ELSE ScanRows(file.rows)

\* a construction loop that gives every Task the same mutex
NewTask_SharedMutex(taskCommand, duration, i) ==
    [taskText |-> Trim(taskCommand, Quote),
     isShellScript |-> HasSuffix(taskCommand, ShSuffix),
     timeBetweenRuns |-> duration,
     mutex |-> 1]

\* one Task of the construction loop; the i-th Task gets the i-th mutex
NewTask(taskCommand, duration, i) ==
    [taskText |-> Trim(taskCommand, Quote),
     isShellScript |-> HasSuffix(taskCommand, ShSuffix),
     timeBetweenRuns |-> duration,
     mutex |-> i]

\* setupLogFile: the file the log is written to, or fatal
setupLogFile(logPath, openable) ==
    IF logPath \in openable THEN [fatal |-> FALSE, file |-> logPath]
    ELSE IF logPath = DefaultLog THEN [fatal |-> TRUE, file |-> <<>>]
    ELSE IF DefaultLog \in openable THEN [fatal |-> FALSE, file |-> DefaultLog]
    ELSE [fatal |-> TRUE, file |-> <<>>]

Ended(how) == [exit |-> how, tasks |-> <<>>]

\* init(), lines 87-102: the task list is built, then the log file is set up
CreateTasks(taskList, durationList, logs) ==
    IF Len(taskList) > Len(durationList) THEN Ended("panic")
    ELSE IF logs.fatal THEN Ended("fatal")
    ELSE [exit |-> "none",
          tasks |-> [i \in 1..Len(taskList) |-> NewTask(taskList[i], durationList[i], i)]]

\* an init() without the check of lines 74-77
InitSteps_NoCountCheck(in, flags, fromFile) ==
    IF flags.exit THEN Ended("exit1")
    ELSE IF fromFile.panic THEN Ended("panic")
    ELSE CreateTasks(in.tasks \o fromFile.tasks, flags.list \o fromFile.durations,
                     setupLogFile(in.logPath, in.openable))

\* init(), lines 72-85: the flags are parsed and checked, the file is read
InitSteps(in, flags, fromFile) ==
    IF flags.exit THEN Ended("exit1")
    ELSE IF Len(in.tasks) > Len(flags.list) THEN Ended("fatal")
    ELSE IF fromFile.panic THEN Ended("panic")
    ELSE CreateTasks(in.tasks \o fromFile.tasks, flags.list \o fromFile.durations,
                     setupLogFile(in.logPath, in.openable))

\* init() as a whole: how it ends ("none": it returns) and the task list
InitResult(in) ==
    InitSteps(in, durationMultiFlagSet(in.durs),
              IF in.file.given THEN parseTasksFile(in.file) ELSE NoRows)

(***************************************************************************)
(* The state of the process.                                               *)
(***************************************************************************)
VARIABLES
    input,      \* the command line, the task file and the files that open
    phase,      \* "init", "main" (main is before its calls of scheduleTask),
                \* "resident" (main is inside scheduleTask(tasks[0])), "exited"
    exit,       \* how the process ended: "none", "exit1", "fatal", "panic"
    tasks,      \* var tasks []*Task
    mutex,      \* the state of each Task's sync.Mutex: "unlocked" or "locked"
    mainI,      \* the index i of main's loop over tasks[1:] (from 2 here)
    loop,       \* per task, its scheduleTask: "none", "spawned" (go statement
                \* done, the goroutine has not run yet), "ticking"
    tickerStart,\* per task, the time of its time.NewTicker
    ticks,      \* per task, the ticks its loop has received from thisTicker.C
    runs,       \* per task, the calls of cmd.Run
    attempts,   \* per task, the runTask goroutines its loop has started, in
                \* the order of their ticks
    now         \* the clock, in milliseconds

vars == <<input, phase, exit, tasks, mutex, mainI, loop, tickerStart, ticks, runs, attempts, now>>

ClockStep == 100 * Millisecond
MaxTime == MaxSteps * ClockStep

TaskIds == 1..Len(tasks)

\* A runTask goroutine: st is "blocked" (before mutex.Lock returns),
\* "running" (it holds the mutex and cmd.Run has started the process),
\* "done" (runTask has returned); argv is the command cmd.Run was given, err
\* what cmd.Run returned ("none" before it returns, "nil" for no error);
\* recs are the lines the goroutine has written to the log.
NewAttempt == [st |-> "blocked", argv |-> <<>>, err |-> "none", recs |-> <<>>]

Init ==
    /\ input \in Inputs
    /\ phase = "init"
    /\ exit = "none"
    /\ tasks = <<>>
    /\ mutex = <<>>
    /\ mainI = 2
    /\ loop = <<>>
    /\ tickerStart = <<>>
    /\ ticks = <<>>
    /\ runs = <<>>
    /\ attempts = <<>>
    /\ now = 0

\* the process ends: nothing of it runs any more
Exits(how) ==
    /\ phase' = "exited"
    /\ exit' = how

(***************************************************************************)
(* init() and main().                                                      *)
(***************************************************************************)
InitFn ==
    /\ phase = "init"
    /\ \E r \in {InitResult(input)} :
           /\ tasks' = r.tasks
           /\ mutex' = [i \in 1..Len(r.tasks) |-> "unlocked"]
           /\ loop' = [i \in 1..Len(r.tasks) |-> "none"]
           /\ tickerStart' = [i \in 1..Len(r.tasks) |-> 0]
           /\ ticks' = [i \in 1..Len(r.tasks) |-> 0]
           /\ runs' = [i \in 1..Len(r.tasks) |-> 0]
           /\ attempts' = [i \in 1..Len(r.tasks) |-> <<>>]
           /\ IF r.exit = "none"
              THEN phase' = "main" /\ exit' = exit
              ELSE Exits(r.exit)
    /\ UNCHANGED <<input, mainI, now>>

\* a main that does not check the task list
NoTasks_Unchecked == FALSE

\* main, line 109: the check of the task list
NoTasks == Len(tasks) = 0

\* main, lines 109-112: no task, log.Fatal
MainNoTasks ==
    /\ phase = "main"
    /\ NoTasks
    /\ Exits("fatal")
    /\ UNCHANGED <<input, tasks, mutex, mainI, loop, tickerStart, ticks, runs, attempts, now>>

\* a main whose loop of go statements starts at the first task and stops one
\* task early
MainGo_FromFirst ==
    /\ phase = "main"
    /\ ~NoTasks
    /\ mainI <= Len(tasks)
    /\ loop' = [loop EXCEPT ![mainI - 1] = "spawned"]
    /\ mainI' = mainI + 1
    /\ UNCHANGED <<input, phase, exit, tasks, mutex, tickerStart, ticks, runs, attempts, now>>

\* main, line 118: go scheduleTask(tasks[i])
MainGo ==
    /\ phase = "main"
    /\ ~NoTasks
    /\ mainI <= Len(tasks)
    /\ loop' = [loop EXCEPT ![mainI] = "spawned"]
    /\ mainI' = mainI + 1
    /\ UNCHANGED <<input, phase, exit, tasks, mutex, tickerStart, ticks, runs, attempts, now>>

\* time.NewTicker(d) panics when d <= 0
NewTickerPanics(d) == d <= 0

\* scheduleTask up to its loop, on the main line or on a goroutine: NewTicker
\* panics, which ends the process, or starts the ticker
ScheduleTaskStart(i, line) ==
    IF NewTickerPanics(tasks[i].timeBetweenRuns)
    THEN /\ Exits("panic")
         /\ UNCHANGED <<loop, tickerStart>>
    ELSE /\ loop' = [loop EXCEPT ![i] = "ticking"]
         /\ tickerStart' = [tickerStart EXCEPT ![i] = now]
         /\ phase' = IF line = "main" THEN "resident" ELSE phase
         /\ exit' = exit

\* main, line 122: scheduleTask(tasks[0]) on the main line; tasks[0] of an
\* empty slice is an index out of range, a panic
MainCall ==
    /\ phase = "main"
    /\ ~NoTasks
    /\ mainI > Len(tasks)
    /\ IF Len(tasks) = 0
       THEN Exits("panic") /\ UNCHANGED <<loop, tickerStart>>
       ELSE ScheduleTaskStart(1, "main")
    /\ UNCHANGED <<input, tasks, mutex, mainI, ticks, runs, attempts, now>>

\* a goroutine started by main begins to run scheduleTask
GoScheduleTask(i) ==
    /\ phase \in {"main", "resident"}
    /\ loop[i] = "spawned"
    /\ ScheduleTaskStart(i, "goroutine")
    /\ UNCHANGED <<input, tasks, mutex, mainI, ticks, runs, attempts, now>>

(***************************************************************************)
(* scheduleTask's loop and the clock.                                      *)
(***************************************************************************)
\* a ticker whose first tick comes at once
NextTickAt_Immediate(i) == tickerStart[i] + ticks[i] * tasks[i].timeBetweenRuns

\* the time of the next tick of task i's ticker
NextTickAt(i) == tickerStart[i] + (ticks[i] + 1) * tasks[i].timeBetweenRuns

\* a loop that calls runTask itself, without go, and so receives no tick
\* before the attempt it has started has returned
TickReady_Synchronous(i) ==
    /\ loop[i] = "ticking"
    /\ NextTickAt(i) <= now
    /\ \A a \in 1..Len(attempts[i]) : attempts[i][a].st = "done"

\* the loop of task i is given a tick: for range thisTicker.C
TickReady(i) ==
    /\ loop[i] = "ticking"
    /\ NextTickAt(i) <= now

\* a loop that starts no runTask while the task's mutex is locked
Dispatch_SkipIfBusy(i) ==
    IF mutex[tasks[i].mutex] = "locked" THEN attempts
    ELSE [attempts EXCEPT ![i] = Append(@, NewAttempt)]

\* a loop that keeps at most one attempt waiting for the mutex
Dispatch_OneWaiter(i) ==
    IF \E a \in 1..Len(attempts[i]) : attempts[i][a].st = "blocked" THEN attempts
    ELSE [attempts EXCEPT ![i] = Append(@, NewAttempt)]

\* the body of the loop: go runTask(task)
Dispatch(i) == [attempts EXCEPT ![i] = Append(@, NewAttempt)]

\* a loop that derives the kind of its task again, from the stored text,
\* on every tick
Tick_ReevaluatesKind(i) ==
    /\ phase \in {"main", "resident"}
    /\ TickReady(i)
    /\ ticks' = [ticks EXCEPT ![i] = @ + 1]
    /\ attempts' = Dispatch(i)
    /\ tasks' = [tasks EXCEPT ![i].isShellScript = HasSuffix(tasks[i].taskText, ShSuffix)]
    /\ UNCHANGED <<input, phase, exit, mutex, mainI, loop, tickerStart, runs, now>>

\* the loop of task i receives a tick and starts an attempt
Tick(i) ==
    /\ phase \in {"main", "resident"}
    /\ TickReady(i)
    /\ ticks' = [ticks EXCEPT ![i] = @ + 1]
    /\ attempts' = Dispatch(i)
    /\ UNCHANGED <<input, phase, exit, tasks, mutex, mainI, loop, tickerStart, runs, now>>

Min(S) == CHOOSE m \in S : \A n \in S : m <= n

\* time passes, up to the next tick of a ticker; a loop that is waiting for
\* its ticker is given a tick that is due before time moves on
Advance ==
    /\ phase \in {"main", "resident"}
    /\ now < MaxTime
    /\ \A i \in TaskIds : ~TickReady(i)
    /\ now' = Min({now + ClockStep} \cup
                  {NextTickAt(i) : i \in {j \in TaskIds : loop[j] = "ticking" /\ NextTickAt(j) > now}})
    /\ UNCHANGED <<input, phase, exit, tasks, mutex, mainI, loop, tickerStart, ticks, runs, attempts>>

(***************************************************************************)
(* runTask and what it calls.                                              *)
(***************************************************************************)
\* a runTask that does not wait for the mutex
LockReturns_NoWait(m) == TRUE

\* task.mutex.Lock() returns only when the mutex is unlocked
LockReturns(m) == mutex[m] = "unlocked"

\* runCustomCommand: exec.Command(command)
runCustomCommand(command) == <<command>>

\* runBashFile: exec.Command("/usr/bin/bash", scriptPath)
runBashFile(scriptPath) == <<Bash, scriptPath>>

\* the command runTask builds for a task
CommandOf(task) ==
    IF task.isShellScript THEN runBashFile(task.taskText)
    ELSE runCustomCommand(task.taskText)

\* err.Error() of what cmd.Run returns
ErrorText(err, argv) ==
    CASE err = "notfound" -> ExecColon \o argv[1] \o NotFound
      [] err = "exit1" -> ExitStatus1
      [] err = "killed" -> SignalKilled

\* a runAndLogTask without the return that ends its error branch
runAndLogTask_NoReturn(argv, taskName, err) ==
    (IF err # "nil" THEN <<ErrorPrefix \o ErrorText(err, argv)>> ELSE <<>>)
        \o <<taskName \o Dash \o Stdout(argv)>>

\* runAndLogTask after cmd.Run has returned err ("nil" for none): the lines
\* it writes to the log
runAndLogTask(argv, taskName, err) ==
    IF err # "nil"
    THEN <<ErrorPrefix \o ErrorText(err, argv)>>
    ELSE <<taskName \o Dash \o Stdout(argv)>>

\* a runTask without the deferred Unlock
DeferredUnlock_Missing(m, err) == mutex

\* an Unlock that is not deferred and is skipped when the run fails
DeferredUnlock_OnSuccess(m, err) ==
    IF err = "nil" THEN [mutex EXCEPT ![m] = "unlocked"] ELSE mutex

\* the deferred task.mutex.Unlock() of runTask
DeferredUnlock(m, err) == [mutex EXCEPT ![m] = "unlocked"]

\* a runAndLogTask that logs a failure with log.Fatal
RunTaskReturn_Fatal(i, a, argv, err) ==
    /\ attempts' = [attempts EXCEPT ![i][a] =
                       [st |-> "done", argv |-> argv, err |-> err,
                        recs |-> @.recs \o <<ErrorPrefix \o ErrorText(err, argv)>>]]
    /\ IF err # "nil"
       THEN Exits("fatal") /\ UNCHANGED mutex
       ELSE /\ mutex' = [mutex EXCEPT ![tasks[i].mutex] = "unlocked"]
            /\ UNCHANGED <<phase, exit>>

\* cmd.Run has returned err: runAndLogTask logs and returns, runTask returns
\* and its deferred Unlock runs; the process goes on
RunTaskReturn(i, a, argv, err) ==
    /\ attempts' = [attempts EXCEPT ![i][a] =
                       [st |-> "done", argv |-> argv, err |-> err,
                        recs |-> @.recs \o runAndLogTask(argv, tasks[i].taskText, err)]]
    /\ mutex' = DeferredUnlock(tasks[i].mutex, err)
    /\ UNCHANGED <<phase, exit>>

\* a runTask whose Lock returns in the order of the ticks: an attempt takes
\* the mutex only when no attempt dispatched before it still waits
RunTaskStart_FIFO(i, a) ==
    /\ phase \in {"main", "resident"}
    /\ attempts[i][a].st = "blocked"
    /\ \A b \in 1..(a - 1) : attempts[i][b].st # "blocked"
    /\ LockReturns(tasks[i].mutex)
    /\ runs' = [runs EXCEPT ![i] = @ + 1]
    /\ \E argv \in {CommandOf(tasks[i])} :
           IF argv[1] \in Installed
           THEN /\ attempts' = [attempts EXCEPT ![i][a] = [@ EXCEPT !.st = "running", !.argv = argv]]
                /\ mutex' = [mutex EXCEPT ![tasks[i].mutex] = "locked"]
                /\ UNCHANGED <<phase, exit>>
           ELSE RunTaskReturn(i, a, argv, "notfound")
    /\ UNCHANGED <<input, tasks, mainI, loop, tickerStart, ticks, now>>

\* runTask from its start to cmd.Run: Lock returns, the command is built and
\* Run either does not find the program and returns at once (runTask logs
\* and returns), or starts the process
RunTaskStart(i, a) ==
    /\ phase \in {"main", "resident"}
    /\ attempts[i][a].st = "blocked"
    /\ LockReturns(tasks[i].mutex)
    /\ runs' = [runs EXCEPT ![i] = @ + 1]
    /\ \E argv \in {CommandOf(tasks[i])} :
           IF argv[1] \in Installed
           THEN /\ attempts' = [attempts EXCEPT ![i][a] = [@ EXCEPT !.st = "running", !.argv = argv]]
                /\ mutex' = [mutex EXCEPT ![tasks[i].mutex] = "locked"]
                /\ UNCHANGED <<phase, exit>>
           ELSE RunTaskReturn(i, a, argv, "notfound")
    /\ UNCHANGED <<input, tasks, mainI, loop, tickerStart, ticks, now>>

\* how a started process ends: exit status 0, another exit status, a signal
Outcomes == {"nil", "exit1", "killed"}

\* the process ends, cmd.Run returns, the outcome is logged, runTask returns
RunTaskEnd(i, a, err) ==
    /\ phase \in {"main", "resident"}
    /\ attempts[i][a].st = "running"
    /\ RunTaskReturn(i, a, attempts[i][a].argv, err)
    /\ UNCHANGED <<input, tasks, mainI, loop, tickerStart, ticks, runs, now>>

Next ==
    \/ InitFn
    \/ MainNoTasks
    \/ MainGo
    \/ MainCall
    \/ \E i \in TaskIds : GoScheduleTask(i)
    \/ \E i \in TaskIds : Tick(i)
    \/ Advance
    \/ \E i \in TaskIds : \E a \in 1..Len(attempts[i]) : RunTaskStart(i, a)
    \/ \E i \in TaskIds : \E a \in 1..Len(attempts[i]) : \E err \in Outcomes : RunTaskEnd(i, a, err)

Spec == Init /\ [][Next]_vars

\* the program run with flags only (no task file, the default log file)
InitFlags ==
    /\ Init
    /\ input \in OneFlagInputs \cup TwoFlagInputs

SpecFlags == InitFlags /\ [][Next]_vars

\* every index a task or an attempt can have on the inputs of the model
AllTaskIds == UNION {1..(Len(in.tasks) + Len(in.file.rows)) : in \in Inputs}

AttemptIds == 1..(MaxTime \div ClockStep)

\* the goroutine of attempt a of task i goes on when it can: it returns
\* from Lock when the mutex is free for it
RunTaskGoesOn(i, a) ==
    /\ i \in TaskIds
    /\ a \in 1..Len(attempts[i])
    /\ RunTaskStart(i, a)

\* the process attempt a of task i has started comes to an end
RunTerminates(i, a) ==
    /\ i \in TaskIds
    /\ a \in 1..Len(attempts[i])
    /\ \E err \in Outcomes : RunTaskEnd(i, a, err)

\* the Go scheduler runs every goroutine that can run, the clock goes on,
\* and every process that is started terminates
Fairness ==
    /\ WF_vars(InitFn) /\ WF_vars(MainNoTasks) /\ WF_vars(MainGo) /\ WF_vars(MainCall)
    /\ WF_vars(\E i \in TaskIds : GoScheduleTask(i))
    /\ WF_vars(\E i \in TaskIds : Tick(i))
    /\ WF_vars(Advance)
    /\ \A i \in AllTaskIds : \A a \in AttemptIds : WF_vars(RunTaskGoesOn(i, a))
    /\ \A i \in AllTaskIds : \A a \in AttemptIds : WF_vars(RunTerminates(i, a))

\* the program run with no task, with one task, or with two tasks of
\* different intervals, under fair scheduling
FairInputs ==
    {CommandLine(p[1], p[2], NoFile, DefaultLog, {DefaultLog}) :
        p \in {<<<<>>, <<>>>>,
               <<<<Date>>, <<D100ms>>>>,
               <<<<EchoHello, Date>>, <<D200ms, D100ms>>>>}}

InitFair ==
    /\ Init
    /\ input \in FairInputs

SpecFair == InitFair /\ [][Next]_vars /\ Fairness
(***************************************************************************)
(* What the claims speak of.                                               *)
(***************************************************************************)
Running == {"main", "resident"}

\* the attempts of task i that are inside their run: past mutex.Lock, before
\* the return of runTask
InRun(i) == {a \in 1..Len(attempts[i]) : attempts[i][a].st = "running"}

Blocked(i) == {a \in 1..Len(attempts[i]) : attempts[i][a].st = "blocked"}

Done(i) == {a \in 1..Len(attempts[i]) : attempts[i][a].st = "done"}

\* a log line is a Failure record or a Success record of a task
IsFailure(line) == HasPrefix(line, ErrorPrefix)

IsSuccess(line, task) == HasPrefix(line, task.taskText \o Dash)

(***************************************************************************)
(* C1: for every task, in every reachable state, at most one attempt of    *)
(* the task is between the Lock of runTask and its return, however many    *)
(* ticks have fired while a run is in progress.                            *)
(***************************************************************************)
C1_AtMostOneInRun ==
    \A i \in TaskIds : Cardinality(InRun(i)) <= 1

\* a run is in progress and two later ticks have each added an attempt
C1_Witness ==
    \E i \in TaskIds :
        /\ Cardinality(InRun(i)) = 1
        /\ Cardinality(Blocked(i)) >= 2

(***************************************************************************)
(* C2: an attempt that takes the task's mutex releases it before runTask   *)
(* returns, on success and on failure: the mutex is locked if and only if  *)
(* exactly one attempt of the task is inside its run, and unlocked         *)
(* whenever none is.                                                       *)
(***************************************************************************)
C2_LockedIffInRun ==
    \A i \in TaskIds :
        /\ mutex[tasks[i].mutex] = "locked" <=> Cardinality(InRun(i)) = 1
        /\ InRun(i) = {} => mutex[tasks[i].mutex] = "unlocked"

\* a run has failed, a run has succeeded, none is in progress
C2_Witness ==
    \E i \in TaskIds :
        /\ \E a \in Done(i) : attempts[i][a].err = "nil"
        /\ \E a \in Done(i) : attempts[i][a].err \in {"exit1", "killed"}
        /\ InRun(i) = {}
        /\ mutex[tasks[i].mutex] = "unlocked"

(***************************************************************************)
(* C3: every tick of a task's ticker starts exactly one attempt: the       *)
(* attempts started equal the ticks, whether a run is in progress or has   *)
(* failed, and the calls of cmd.Run never exceed them (a failure is not    *)
(* retried).                                                               *)
(***************************************************************************)
C3_OneAttemptPerTick ==
    \A i \in TaskIds :
        /\ Len(attempts[i]) = ticks[i]
        /\ runs[i] <= Len(attempts[i])
        /\ runs[i] = Cardinality(InRun(i)) + Cardinality(Done(i))

\* a run has failed, a run is in progress, and a tick has fired meanwhile
C3_Witness ==
    \E i \in TaskIds :
        /\ ticks[i] >= 3
        /\ \E a \in Done(i) : attempts[i][a].err # "nil"
        /\ InRun(i) # {}
        /\ Blocked(i) # {}

(***************************************************************************)
(* C4: every execution writes exactly one outcome record: a Success record *)
(* when the process exits with status 0, a Failure record when it does not *)
(* start, exits with another status or is killed; never none, never both.  *)
(***************************************************************************)
C4_OneRecordPerExecution ==
    \A i \in TaskIds : \A a \in 1..Len(attempts[i]) :
        IF attempts[i][a].st = "done"
        THEN /\ Len(attempts[i][a].recs) = 1
             /\ attempts[i][a].err = "nil" =>
                    /\ IsSuccess(attempts[i][a].recs[1], tasks[i])
                    /\ ~IsFailure(attempts[i][a].recs[1])
             /\ attempts[i][a].err \in {"notfound", "exit1", "killed"} =>
                    /\ IsFailure(attempts[i][a].recs[1])
                    /\ ~IsSuccess(attempts[i][a].recs[1], tasks[i])
        ELSE attempts[i][a].recs = <<>>

\* executions that ended with status 0, with another status, by a signal,
\* and one whose program was not found
C4_Witness ==
    /\ \E i \in TaskIds :
           /\ \E a \in Done(i) : attempts[i][a].err = "nil"
           /\ \E a \in Done(i) : attempts[i][a].err = "exit1"
           /\ \E a \in Done(i) : attempts[i][a].err = "killed"
    /\ \E i \in TaskIds : \E a \in Done(i) : attempts[i][a].err = "notfound"

(***************************************************************************)
(* C5: when an execution of a task fails, the record given to the log      *)
(* holds the task's identity (its command or script path) with the error.  *)
(* The code logs the error alone: the record of a process that exits with  *)
(* status 1 is "ERROR!:  exit status 1" for every task.                    *)
(***************************************************************************)
C5_FailureRecordNamesTask ==
    \A i \in TaskIds : \A a \in Done(i) :
        attempts[i][a].err # "nil" =>
            \E k \in 1..Len(attempts[i][a].recs) :
                /\ IsFailure(attempts[i][a].recs[k])
                /\ Contains(attempts[i][a].recs[k], tasks[i].taskText)

(***************************************************************************)
(* C6: a failing execution of a task changes nothing of the scheduling:    *)
(* the step in which a run fails leaves the task's ticker, ticks and loop, *)
(* the clock and every other task's ticker, mutex and attempts as they     *)
(* were, leaves the task's mutex unlocked, and the process goes on.        *)
(***************************************************************************)
\* a step in which attempt a of task i ends in failure
FailsIn(i, a) ==
    /\ attempts[i][a].st # "done"
    /\ attempts'[i][a].st = "done"
    /\ attempts'[i][a].err # "nil"

C6_FailureLeavesSchedule ==
    [][\A i \in TaskIds : \A a \in 1..Len(attempts[i]) :
          FailsIn(i, a) =>
              /\ phase' = phase /\ phase' \in Running /\ exit' = "none"
              /\ tasks' = tasks /\ loop' = loop /\ tickerStart' = tickerStart
              /\ ticks' = ticks /\ now' = now
              /\ mutex'[tasks[i].mutex] = "unlocked"
              /\ Len(attempts'[i]) = Len(attempts[i])
              /\ \A b \in 1..Len(attempts[i]) : b # a => attempts'[i][b] = attempts[i][b]
              /\ \A j \in TaskIds : j # i =>
                     /\ attempts'[j] = attempts[j]
                     /\ mutex'[tasks[j].mutex] = mutex[tasks[j].mutex]
                     /\ runs'[j] = runs[j]]_vars

\* a run of a task has failed, the task has been given a later tick whose
\* attempt has run to success, and another task is running a process
C6_Witness ==
    \E i \in TaskIds : \E a \in Done(i) :
        /\ attempts[i][a].err # "nil"
        /\ \E b \in Done(i) : b > a /\ attempts[i][b].err = "nil"
        /\ mutex[tasks[i].mutex] = "unlocked"
        /\ \E j \in TaskIds : j # i /\ InRun(j) # {}

(***************************************************************************)
(* C7: if a task is supplied with an interval of 0 or a negative interval, *)
(* the program fails at startup before any scheduleTask has started.  The  *)
(* code lets 0 through (parseDurationStr refuses only d < 0) up to         *)
(* NewTicker, which panics inside scheduleTask when other loops may run,   *)
(* and skips a task-file row with a negative interval without failing.     *)
(***************************************************************************)
\* the interval texts supplied with a task: the i-th --duration of the i-th
\* --task, the second field of a task-file row of two fields
FlagIntervals(in) ==
    {in.durs[i] : i \in {k \in 1..Len(in.durs) : k <= Len(in.tasks)}}

RowIntervals(in) ==
    {Split(in.file.rows[k], Space)[2] :
        k \in {n \in 1..Len(in.file.rows) : Len(Split(in.file.rows[n], Space)) = 2}}

NonPositive(text) == ParseDuration(text).ok /\ ParseDuration(text).d <= 0

NonPositiveSupplied(in) ==
    \E text \in FlagIntervals(in) \cup RowIntervals(in) : NonPositive(text)

C7_NonPositiveIntervalFailsStartup ==
    NonPositiveSupplied(input) => \A i \in TaskIds : loop[i] # "ticking"

(***************************************************************************)
(* C8: if the task list is empty after the flags and the task file have    *)
(* been read, main ends the process with a fatal error, before any         *)
(* scheduleTask is started and before any attempt is dispatched.           *)
(***************************************************************************)
\* init() has returned an empty task list
EmptyTaskList ==
    /\ phase # "init"
    /\ \E r \in {InitResult(input)} : r.exit = "none" /\ r.tasks = <<>>

C8_EmptyTaskListIsFatal ==
    EmptyTaskList =>
        /\ phase \in {"main", "exited"}
        /\ phase = "exited" => exit = "fatal"
        /\ loop = <<>> /\ attempts = <<>> /\ ticks = <<>>
        /\ phase = "main" => ENABLED MainNoTasks /\ ~ENABLED MainGo /\ ~ENABLED MainCall

\* main has ended the process for an empty task list
C8_Witness ==
    /\ EmptyTaskList
    /\ phase = "exited"
    /\ exit = "fatal"

(***************************************************************************)
(* C9: a ShellScript task is run as /usr/bin/bash with the script path as  *)
(* its only argument, and a Command task is run by splitting its text into *)
(* a program and its arguments.  The code gives the whole text of a        *)
(* Command task to exec.Command as the program's name: "echo hello" is     *)
(* looked up as one program of that name, and is not found.                *)
(***************************************************************************)
\* a command line split into its program and arguments
Fields(text) == SelectSeq(Split(text, Space), LAMBDA f : f # <<>>)

C9_DispatchByKind ==
    \A i \in TaskIds : \A a \in InRun(i) \cup Done(i) :
        /\ attempts[i][a].argv =
               IF tasks[i].isShellScript THEN <<Bash, tasks[i].taskText>>
               ELSE Fields(tasks[i].taskText)
        /\ (tasks[i].taskText = EchoHello /\ attempts[i][a].err = "nil") =>
               \E k \in 1..Len(attempts[i][a].recs) :
                   /\ IsSuccess(attempts[i][a].recs[k], tasks[i])
                   /\ Contains(attempts[i][a].recs[k], Hello)

(***************************************************************************)
(* C10: for a task of interval I, over a duration D since its loop began,  *)
(* the attempts dispatched are floor(D / I): none at time 0, the first one *)
(* full interval after the loop starts, one more at every further multiple *)
(* of I, whatever the length of the executions and the intervals of the    *)
(* other tasks.  The count is read when the clock moves on, once the ticks *)
(* due at that instant have been given; before that it is never ahead.     *)
(***************************************************************************)
\* floor(D / I) for the loop of task i at time t
TicksDue(i, t) == (t - tickerStart[i]) \div tasks[i].timeBetweenRuns

C10_DispatchesAreFloor ==
    /\ [](\A i \in TaskIds : loop[i] = "ticking" =>
              /\ Len(attempts[i]) <= TicksDue(i, now)
              /\ Len(attempts[i]) >= TicksDue(i, now) - 1)
    /\ [](\A i \in TaskIds : loop[i] # "ticking" => Len(attempts[i]) = 0)
    /\ [][now' # now =>
              \A i \in TaskIds : loop[i] = "ticking" => Len(attempts[i]) = TicksDue(i, now)]_vars

\* two tasks of different intervals; the first execution of one of them has
\* outlasted two of its intervals, and each has had floor(D / I) attempts
C10_Witness ==
    \E i, j \in TaskIds :
        /\ loop[i] = "ticking" /\ loop[j] = "ticking"
        /\ tasks[i].timeBetweenRuns < tasks[j].timeBetweenRuns
        /\ attempts[i] # <<>> /\ attempts[i][1].st = "running"
        /\ Len(attempts[i]) = 3 /\ TicksDue(i, now) = 3
        /\ Len(attempts[j]) = 1 /\ TicksDue(j, now) = 1

(***************************************************************************)
(* C11: a malformed row of the task file (one field only, more than two    *)
(* fields, a duration that does not parse or is negative) is skipped:      *)
(* parseTasksFile returns every well-formed row before and after it, and   *)
(* the process is not ended by the row.  The code reads splitTask[1] of a  *)
(* row of one field (an empty line, a single word): an index out of range, *)
(* a panic that nothing recovers, inside init().                           *)
(***************************************************************************)
\* a row of a task text and a duration that is not negative
WellFormed(row) ==
    /\ Len(Split(row, Space)) = 2
    /\ ParseDuration(Split(row, Space)[2]).ok
    /\ ParseDuration(Split(row, Space)[2]).d >= 0

WellFormedRows(rows) == SelectSeq(rows, WellFormed)

C11_MalformedRowsSkipped ==
    (phase # "init" /\ input.file.given /\ input.file.opens) =>
        /\ InitResult(input).exit # "panic"
        /\ ~parseTasksFile(input.file).panic
        /\ parseTasksFile(input.file).tasks =
               [k \in 1..Len(WellFormedRows(input.file.rows)) |->
                   Split(WellFormedRows(input.file.rows)[k], Space)[1]]

(***************************************************************************)
(* C12: the kind of a task is fixed at construction from its identity: for *)
(* every Task, isShellScript is true if and only if its taskText (the text *)
(* that is stored, executed and logged) ends with ".sh", in whatever form  *)
(* the text was supplied.  The code tests the suffix on the text as        *)
(* supplied and stores the text with its double quotes trimmed: a text     *)
(* wrapped in double quotes, "job.sh", is stored as job.sh and classified  *)
(* as a Command.                                                           *)
(***************************************************************************)
C12_KindFollowsIdentity ==
    \A i \in TaskIds :
        tasks[i].isShellScript <=> HasSuffix(tasks[i].taskText, ShSuffix)

(***************************************************************************)
(* C13: once main is inside scheduleTask(tasks[0]) there is exactly one    *)
(* scheduleTask per task: that of the first task runs on the main line and *)
(* never returns (the process stays resident unless a panic ends it), each *)
(* other task has had exactly one go statement and has one goroutine that  *)
(* is, or will be, in its loop; a loop never ends and no task's ticker is  *)
(* created a second time.                                                  *)
(***************************************************************************)
\* the loops of the tasks when main has made its calls
OneLoopEach ==
    /\ phase = "resident" =>
           /\ tasks # <<>>
           /\ loop[1] = "ticking"
           /\ mainI = Len(tasks) + 1
           /\ \A i \in TaskIds : i > 1 => loop[i] \in {"spawned", "ticking"}
    /\ \A i \in TaskIds : i = 1 => loop[i] # "spawned"
    /\ \A i \in TaskIds : i > 1 => (loop[i] # "none" <=> i < mainI)

\* a loop that runs keeps running on the ticker it created
LoopsGoOn ==
    \A i \in TaskIds :
        /\ loop[i] = "ticking" => loop'[i] = "ticking" /\ tickerStart'[i] = tickerStart[i]
        /\ loop[i] = "spawned" => loop'[i] \in {"spawned", "ticking"}

\* main does not return from scheduleTask(tasks[0])
MainStays ==
    phase = "resident" =>
        \/ phase' = "resident"
        \/ phase' = "exited" /\ exit' = "panic"

C13_OneLoopPerTask ==
    /\ []OneLoopEach
    /\ [][LoopsGoOn /\ MainStays]_vars

\* two tasks: the loop of the first on the main line, the loop of the
\* second on its goroutine, and each has been given a tick
C13_Witness ==
    /\ phase = "resident"
    /\ Len(tasks) = 2
    /\ loop[1] = "ticking" /\ loop[2] = "ticking"
    /\ ticks[1] >= 1 /\ ticks[2] >= 1
    /\ mainI = 3

(***************************************************************************)
(* C14: when more tasks than durations are given with the flags, the       *)
(* process ends with an error inside init(): no Task is constructed, no    *)
(* scheduleTask starts.  The end is the log.Fatal of line 76 when every    *)
(* duration given parses, and the os.Exit(1) of the flag parser, still     *)
(* earlier, when one does not.                                             *)
(***************************************************************************)
MoreTasksThanDurations(in) == Len(in.tasks) > Len(in.durs)

AllDurationsParse(in) ==
    \A k \in 1..Len(in.durs) :
        ParseDuration(in.durs[k]).ok /\ ParseDuration(in.durs[k]).d >= 0

C14_MissingDurationIsFatal ==
    (MoreTasksThanDurations(input) /\ phase # "init") =>
        /\ phase = "exited"
        /\ exit \in {"fatal", "exit1"}
        /\ AllDurationsParse(input) => exit = "fatal"
        /\ tasks = <<>> /\ loop = <<>> /\ attempts = <<>>
        /\ mainI = 2

\* two tasks and one duration: init() has ended the process
C14_Witness ==
    /\ Len(input.tasks) = 2
    /\ Len(input.durs) = 1
    /\ phase = "exited"
    /\ exit = "fatal"
    /\ tasks = <<>>

(***************************************************************************)
(* C15: a row of the task file made of a command with spaces wrapped in    *)
(* backticks and a duration, as README's sample file writes them, is       *)
(* accepted and gives one task whose identity is the whole command and     *)
(* whose interval is the duration of the row.  The code splits the row on  *)
(* every space, backticks or not, finds more than two fields and refuses   *)
(* the row: no task comes of it.                                           *)
(***************************************************************************)
\* the file holds the backtick row, and no row that stops init()
HasBacktickRow(in) ==
    /\ in.file.given /\ in.file.opens
    /\ \E k \in 1..Len(in.file.rows) : in.file.rows[k] = RowBacktick
    /\ \A k \in 1..Len(in.file.rows) : Len(Split(in.file.rows[k], Space)) >= 2

C15_BacktickRowAccepted ==
    (phase # "init" /\ HasBacktickRow(input)) =>
        \E i \in TaskIds :
            /\ Trim(tasks[i].taskText, Backtick) = EchoHello
            /\ tasks[i].timeBetweenRuns = ParseDuration(D100ms).d

(***************************************************************************)
(* C16: the loop of a task never waits for an execution: whenever the      *)
(* task's ticker has a tick due, the loop's step (receive the tick, go     *)
(* runTask) is enabled, whether attempts of the task are running, blocked  *)
(* on its mutex or never end; and the step leaves the loop waiting for the *)
(* next tick.                                                              *)
(***************************************************************************)
\* the ticker of task i has sent a tick its loop has not yet received
TickDue(i) ==
    /\ phase \in Running
    /\ loop[i] = "ticking"
    /\ tickerStart[i] + (ticks[i] + 1) * tasks[i].timeBetweenRuns <= now

C16_LoopNeverWaits ==
    \A i \in TaskIds : TickDue(i) => ENABLED Tick(i)

\* a tick is due and can be taken while one attempt of the task is in its
\* run and another waits for the mutex
C16_Witness ==
    \E i \in TaskIds :
        /\ TickDue(i)
        /\ ENABLED Tick(i)
        /\ InRun(i) # {}
        /\ Blocked(i) # {}

(***************************************************************************)
(* C17: when goroutines are scheduled with weak fairness and every process *)
(* that is started terminates, every attempt dispatched for a task comes   *)
(* to hold the task's mutex, runs its process and logs its outcome, unless *)
(* the whole process has ended first: none waits for the mutex for ever    *)
(* while other attempts of the task take it.                               *)
(***************************************************************************)
Dispatched(i, a) ==
    /\ i \in TaskIds
    /\ a \in 1..Len(attempts[i])

Reported(i, a) ==
    /\ Dispatched(i, a)
    /\ attempts[i][a].st = "done"
    /\ Len(attempts[i][a].recs) = 1

WaitersAreTicks ==
    \A i \in TaskIds : Cardinality(Blocked(i)) = ticks[i] - runs[i]

\* a tick during a run adds one waiting attempt and touches no other
TickAddsWaiter ==
    \A i \in TaskIds :
        (InRun(i) # {} /\ ticks'[i] = ticks[i] + 1) =>
            /\ Blocked(i)' = Blocked(i) \cup {Len(attempts[i]) + 1}
            /\ InRun(i)' = InRun(i)

\* no attempt is dropped, and a waiting attempt waits as long as another
\* attempt holds the mutex
WaitersStay ==
    \A i \in TaskIds :
        /\ Len(attempts'[i]) >= Len(attempts[i])
        /\ (InRun(i) # {} /\ InRun(i)' = InRun(i)) => Blocked(i) \subseteq Blocked(i)'
        /\ \A a \in Blocked(i) : attempts'[i][a].st # "blocked" => runs'[i] = runs[i] + 1

C18_WaitersPileUp ==
    /\ []WaitersAreTicks
    /\ [][TickAddsWaiter /\ WaitersStay]_vars

\* the first execution has not ended and every later tick the clock allows
\* has left an attempt waiting
C18_Witness ==
    \E i \in TaskIds :
        /\ InRun(i) = {1}
        /\ ticks[i] = MaxSteps
        /\ Cardinality(Blocked(i)) = MaxSteps - 1

(***************************************************************************)
(* C19: every task has a mutex of its own and the tasks are independent:   *)
(* executions of two tasks can be in progress at the same instant, and     *)
(* whether a task can be given a tick, take its mutex or end its run       *)
(* depends on that task's own ticker, mutex and attempts only, so a run of *)
(* another task that is slow or never ends blocks none of them.            *)
(***************************************************************************)
OwnMutex ==
    \A i, j \in TaskIds : i # j => tasks[i].mutex # tasks[j].mutex

\* what task j can do is decided by the state of task j
DecidedByOwnState(j) ==
    /\ TickDue(j) => ENABLED Tick(j)
    /\ \A a \in Blocked(j) : InRun(j) = {} => ENABLED RunTaskStart(j, a)
    /\ \A a \in InRun(j) : \A err \in Outcomes : ENABLED RunTaskEnd(j, a, err)

C19_TasksAreIndependent ==
    /\ OwnMutex
    /\ phase \in Running => \A j \in TaskIds : DecidedByOwnState(j)

\* the first run of one task is still in progress, two of its attempts
\* wait, and meanwhile another task has ended a run and is in its next one
C19_Witness ==
    \E i, j \in TaskIds :
        /\ i # j
        /\ InRun(i) = {1}
        /\ Cardinality(Blocked(i)) >= 2
        /\ Done(j) # {}
        /\ InRun(j) # {}
        /\ \E a \in Blocked(i) : ~ENABLED RunTaskStart(i, a)

(***************************************************************************)
(* C20: once init() has built the task list, no step of main, of a loop or *)
(* of an attempt (a tick, a dispatch, a run, a success, a failure) adds a  *)
(* Task, removes one or changes a Task's taskText, isShellScript or        *)
(* timeBetweenRuns, nor which mutex it has: of a task, only the state of   *)
(* its mutex changes.                                                      *)
(***************************************************************************)
\* the task list is the one init() built
TasksAsBuilt ==
    phase # "init" => tasks = InitResult(input).tasks

\* a step after init() leaves the task list as it is
TasksUnchanged ==
    phase # "init" =>
        /\ Len(tasks') = Len(tasks)
        /\ \A i \in TaskIds :
               /\ tasks'[i].taskText = tasks[i].taskText
               /\ tasks'[i].isShellScript = tasks[i].isShellScript
               /\ tasks'[i].timeBetweenRuns = tasks[i].timeBetweenRuns
               /\ tasks'[i].mutex = tasks[i].mutex

C20_TaskListIsImmutable ==
    /\ []TasksAsBuilt
    /\ [][TasksUnchanged]_vars

\* ticks, a failure, a success and a locked mutex have left the task as
\* init() built it
C20_Witness ==
    \E i \in TaskIds :
        /\ tasks[i] = InitResult(input).tasks[i]
        /\ ticks[i] >= 2
        /\ \E a \in Done(i) : attempts[i][a].err # "nil"
        /\ \E j \in TaskIds :
               /\ \E a \in Done(j) : attempts[j][a].err = "nil"
               /\ mutex[tasks[j].mutex] = "locked"

(***************************************************************************)
(* C21: among the attempts of a task that wait for its mutex, the order in *)
(* which they take it is not the order of their ticks: when the mutex is   *)
(* free, every waiting attempt can be the next to take it, so an attempt   *)
(* of a later tick can run before an attempt of an earlier tick.           *)
(***************************************************************************)
C21_AnyWaiterMayBeNext ==
    \A i \in TaskIds :
        (phase \in Running /\ mutex[tasks[i].mutex] = "unlocked") =>
            \A a \in Blocked(i) : ENABLED RunTaskStart(i, a)

\* the attempt of the second tick has run to its end and the attempt of
\* the first tick has not yet taken the mutex
C21_Witness ==
    \E i \in TaskIds :
        /\ Len(attempts[i]) >= 2
        /\ attempts[i][1].st = "blocked"
        /\ attempts[i][2].st = "done"
        /\ attempts[i][2].err = "nil"
        /\ mutex[tasks[i].mutex] = "unlocked"

(***************************************************************************)
(* C22: no two executions of an equivalent task (the same command or the   *)
(* same script path) run at the same time: for every task text, over all   *)
(* the entries of the task list, at most one process is running, also when *)
(* the text was supplied more than once.  The code gives every entry of    *)
(* the list a mutex of its own: two entries of the same text exclude each  *)
(* other in nothing, and both run at once.                                 *)
(***************************************************************************)
\* the runs in progress for a task text, over the whole task list
RunsOfText(text) ==
    {<<i, a>> \in TaskIds \X AttemptIds :
        tasks[i].taskText = text /\ a \in InRun(i)}

C22_OneRunPerTaskText ==
    \A i \in TaskIds : Cardinality(RunsOfText(tasks[i].taskText)) <= 1

(***************************************************************************)
(* C23: when the file named by --file cannot be opened, parseTasksFile     *)
(* returns no task and no duration and the program goes on: the task list  *)
(* is made of the tasks and durations given by the flags, unchanged, and   *)
(* these are the tasks that are scheduled.                                 *)
(***************************************************************************)
\* --file names a file that does not open, and the flags pass init()
FileDoesNotOpen(in) ==
    /\ in.file.given /\ ~in.file.opens
    /\ ~MoreTasksThanDurations(in)
    /\ AllDurationsParse(in)
    /\ in.logPath \in in.openable

C23_UnopenableFileIsIgnored ==
    (phase # "init" /\ FileDoesNotOpen(input)) =>
        /\ Len(tasks) = Len(input.tasks)
        /\ \A i \in TaskIds :
               /\ tasks[i].taskText = Trim(input.tasks[i], Quote)
               /\ tasks[i].timeBetweenRuns = ParseDuration(input.durs[i]).d
        /\ input.tasks # <<>> => (phase \in Running /\ exit = "none")

\* the file did not open and the task given by flag has been scheduled:
\* its loop has ticked and an execution has ended
C23_Witness ==
    /\ FileDoesNotOpen(input)
    /\ input.tasks # <<>>
    /\ phase = "resident"
    /\ \E i \in TaskIds : ticks[i] >= 1 /\ Done(i) # {}

(***************************************************************************)
(* C24: every Task is built with the interval that was supplied for it:    *)
(* the i-th task given by flag has the i-th duration given by flag, and a  *)
(* task read from the task file has the duration of its own row, for every *)
(* number of --task flags, --duration flags and rows that passes init().   *)
(* The code appends the durations of the file after all the durations of   *)
(* the flags and pairs the lists by index: with more --duration than       *)
(* --task, a task of the file gets a flag's duration, or the duration of   *)
(* an earlier row.                                                         *)
(***************************************************************************)
\* the duration written on the k-th well-formed row of the file
RowDuration(in, k) ==
    ParseDuration(Split(WellFormedRows(in.file.rows)[k], Space)[2]).d

\* the number of tasks the file gives
FileTaskCount(in) ==
    IF in.file.given /\ in.file.opens THEN Len(WellFormedRows(in.file.rows)) ELSE 0

C24_TaskHasItsOwnInterval ==
    (phase # "init" /\ InitResult(input).exit = "none") =>
        /\ Len(tasks) = Len(input.tasks) + FileTaskCount(input)
        /\ \A i \in 1..Len(input.tasks) :
               tasks[i].timeBetweenRuns = ParseDuration(input.durs[i]).d
        /\ \A k \in 1..FileTaskCount(input) :
               tasks[Len(input.tasks) + k].timeBetweenRuns = RowDuration(input, k)

(***************************************************************************)
(* C25: whenever init() comes to its construction loop, the merged list of *)
(* durations is at least as long as the merged list of tasks: the read of  *)
(* durationList[i] is in range for every index of taskList and the loop    *)
(* builds one Task per task text without a fault, for the numbers of flag  *)
(* tasks, flag durations and accepted rows of every input.                 *)
(***************************************************************************)
\* taskList and durationList as they are at line 87
MergedTasks(in) ==
    in.tasks \o (IF in.file.given THEN parseTasksFile(in.file).tasks ELSE <<>>)

MergedDurations(in) ==
    durationMultiFlagSet(in.durs).list
        \o (IF in.file.given THEN parseTasksFile(in.file).durations ELSE <<>>)

\* init() comes to line 87: the flags parse, the check of line 74 passes
\* and the reading of the file has not ended the process
ReachesConstruction(in) ==
    /\ ~durationMultiFlagSet(in.durs).exit
    /\ Len(in.tasks) <= Len(durationMultiFlagSet(in.durs).list)
    /\ in.file.given => ~parseTasksFile(in.file).panic

\* the construction loop on the lists taskList and durationList: built is
\* the task list init() leaves, how is the way init() ends
ConstructionInRange(taskList, durationList, built, how) ==
    /\ Len(durationList) >= Len(taskList)
    /\ how # "panic"
    /\ how = "none" =>
           /\ Len(built) = Len(taskList)
           /\ \A i \in 1..Len(built) : built[i].timeBetweenRuns = durationList[i]

\* the step of init(), for an input that comes to line 87
C25_DurationIndexInRange ==
    [][(phase = "init" /\ phase' # "init" /\ ReachesConstruction(input)) =>
          \E taskList \in {MergedTasks(input)} :
              \E durationList \in {MergedDurations(input)} :
                  ConstructionInRange(taskList, durationList, tasks', exit')]_vars

\* more durations than tasks by flag, rows of the file accepted and rows
\* refused: the construction loop has built its tasks
C25_Witness ==
    /\ phase # "init"
    /\ ReachesConstruction(input)
    /\ Len(input.durs) > Len(input.tasks)
    /\ input.file.given
    /\ Len(input.file.rows) > Len(parseTasksFile(input.file).tasks)
    /\ tasks # <<>>
    /\ Len(tasks) = Len(MergedTasks(input))
    /\ Len(MergedDurations(input)) > Len(tasks)

=============================================================================
